---- MODULE Spec2Model ----
(***************************************************************************)
(* WoundCareSim backend: the session store (SessionManager), the           *)
(* progression gatekeeper (EvaluationService.process_step_result), the     *)
(* POST /session/step handler and the two readiness engines                *)
(* (app/core/coordinator.py and app/utils/scoring.py).                     *)
(*                                                                         *)
(* Units: a confidence or a score c in [0,1] is the integer 1000*c         *)
(* (per mille); a weight w is the integer 10*w (tenths).  A quotient is    *)
(* kept exact as a record [num, den]; Python's binary floating point       *)
(* rounding is not modelled.                                               *)
(***************************************************************************)
EXTENDS Integers, Sequences, FiniteSets, TLC

VARIABLES
    sessions,      \* SessionManager.sessions: session_id -> session dict
    now,           \* int(datetime.now().timestamp()), the clock second
    last,          \* the last operation called and what it returned
    nops,          \* the number of operations called so far
    evaluations,   \* input of the readiness engines: the list of records
    step_in,       \* input of the readiness engines: current_step
    result,        \* what the last readiness engine call returned
    loop           \* the event loop: the coroutines submitted and the one running

vars == <<sessions, now, last, nops, evaluations, step_in, result, loop>>

sessionVars == <<sessions, now, last, nops>>

evalVars == <<evaluations, step_in, result>>

(***************************************************************************)
(* Bounds of the model.                                                    *)
(***************************************************************************)
\* sessions held by the store at one time
MaxSessions == 2

\* clock seconds that pass during a run
MaxClock == 1

\* cap of one step's attempt counter
MaxAttempts == 2

\* operations called in one run
MaxOps == 5

\* records in one evaluation list
MaxRecords == 2

\* process_step_result coroutines submitted to the event loop together
MaxTasks == 2

\* POST /session/step requests submitted to the event loop together
MaxRequests == 3

(***************************************************************************)
(* app/core/state_machine.py: Step and next_step.                          *)
(***************************************************************************)
StepOrder == <<"HISTORY", "ASSESSMENT", "CLEANING", "DRESSING">>

Steps == {StepOrder[i] : i \in 1..Len(StepOrder)}

\* Python's None where a step is expected
NoStep == "None"

StepIndex(s) == CHOOSE i \in 1..Len(StepOrder) : StepOrder[i] = s

\* next_step raises on the last step
NextStepRaises(s) == StepIndex(s) = Len(StepOrder)

next_step(s) == StepOrder[StepIndex(s) + 1]

(***************************************************************************)
(* Python dict helpers.                                                    *)
(***************************************************************************)
DictGet(d, k, default) == IF k \in DOMAIN d THEN d[k] ELSE default

DictSet(d, k, v) == [x \in (DOMAIN d) \cup {k} |-> IF x = k THEN v ELSE d[x]]

DictDel(d, k) == [x \in (DOMAIN d) \ {k} |-> d[x]]

EmptyDict == [x \in {} |-> 0]

(***************************************************************************)
(* SessionManager (app/services/session_manager.py).  Each method is an    *)
(* operator from the store to the store after the call.                    *)
(***************************************************************************)
\* f"sess_{len(self.sessions)+1}_{int(datetime.now().timestamp())}"
NewSessionId(store, clock) == <<Cardinality(DOMAIN store) + 1, clock>>

\* an id that create_session never returns: the unknown session of a call
UnknownId == <<0, 0>>

NewSession ==
    [current_step    |-> StepOrder[1],
     attempt_count   |-> EmptyDict,
     last_evaluation |-> <<>>,
     locked_step     |-> FALSE]

create_session(store, clock) ==
    DictSet(store, NewSessionId(store, clock), NewSession)

delete_session(store, sid) ==
    IF sid \in DOMAIN store THEN DictDel(store, sid) ELSE store

\* increment_attempt writing 1 instead of the old count plus 1
increment_attempt_from_zero(store, sid) ==
    IF sid \notin DOMAIN store THEN store
    ELSE [store EXCEPT ![sid].attempt_count =
             DictSet(@, store[sid].current_step, 1)]

increment_attempt(store, sid) ==
    IF sid \notin DOMAIN store THEN store
    ELSE LET session == store[sid]
             step    == session.current_step
             count   == DictGet(session.attempt_count, step, 0) + 1
         IN  [store EXCEPT ![sid].attempt_count = DictSet(@, step, count)]

\* reset_attempts that returns without writing
reset_attempts_skipped(store, sid) == store

reset_attempts(store, sid) ==
    IF sid \notin DOMAIN store THEN store
    ELSE LET step == store[sid].current_step
         IN  [store EXCEPT ![sid].attempt_count = DictSet(@, step, 0)]

\* lock_current_step that returns without setting the flag
lock_current_step_skipped(store, sid) == store

lock_current_step(store, sid) ==
    IF sid \notin DOMAIN store THEN store
    ELSE [store EXCEPT ![sid].locked_step = TRUE]

store_last_evaluation(store, sid, evaluation) ==
    IF sid \notin DOMAIN store THEN store
    ELSE [store EXCEPT ![sid].last_evaluation = <<evaluation>>]

\* the second definition of advance_step in the class body is the one bound
advance_step_returns(store, sid) ==
    IF sid \notin DOMAIN store \/ store[sid].locked_step THEN NoStep
    ELSE IF NextStepRaises(store[sid].current_step) THEN NoStep
    ELSE next_step(store[sid].current_step)

\* advance_step without the locked_step test of its first line
advance_step_ignoring_lock(store, sid) ==
    IF sid \notin DOMAIN store THEN store
    ELSE IF NextStepRaises(store[sid].current_step) THEN store
    ELSE [store EXCEPT ![sid].current_step = next_step(@),
                       ![sid].locked_step  = FALSE]

\* advance_step that refuses a step with recorded attempts
advance_step_on_first_attempt(store, sid) ==
    IF sid \notin DOMAIN store \/ store[sid].locked_step THEN store
    ELSE IF DictGet(store[sid].attempt_count, store[sid].current_step, 0) > 0
    THEN store
    ELSE IF NextStepRaises(store[sid].current_step) THEN store
    ELSE [store EXCEPT ![sid].current_step = next_step(@),
                       ![sid].locked_step  = FALSE]

advance_step(store, sid) ==
    IF sid \notin DOMAIN store \/ store[sid].locked_step THEN store
    ELSE IF NextStepRaises(store[sid].current_step) THEN store
    ELSE [store EXCEPT ![sid].current_step = next_step(@),
                       ![sid].locked_step  = FALSE]

(***************************************************************************)
(* Evaluation records.  A record is the dict that _evaluator_to_dict       *)
(* builds: [agent, verdict, confidence, issues_detected].  A text is the   *)
(* sequence of its characters.                                             *)
(***************************************************************************)
\* the order of the keys of STEP_WEIGHTS[step] in coordinator.py
CategoryOrder == <<"communication", "knowledge", "clinical">>

Categories == {CategoryOrder[i] : i \in 1..Len(CategoryOrder)}

\* the agent_name an EvaluatorResponse of this category carries (scoring.py)
agent_name(ev) ==
    CASE ev.agent = "communication" -> "CommunicationAgent"
      [] ev.agent = "knowledge"     -> "KnowledgeAgent"
      [] ev.agent = "clinical"      -> "ClinicalAgent"
      [] OTHER                      -> ev.agent

Verdicts == {"Appropriate", "Partially Appropriate", "Inappropriate"}

\* confidences in per mille
ConfidenceValues == {600, 700, 1000}

\* composite scores handed to check_readiness, in per mille
CompositeValues == {0, 600, 650, 700, 1000}

TextUnsafe == <<"U", "n", "s", "a", "f", "e", " ", "g", "r", "i", "p">>

TextLate == <<"l", "a", "t", "e">>

TextSlow == <<"s", "l", "o", "w">>

TextCurt == <<"c", "u", "r", "t">>

RecordOf(a, v, c, i) ==
    [agent |-> a, verdict |-> v, confidence |-> c, issues_detected |-> i]

\* the (confidence, issues_detected) pairs of the records drawn
Profiles ==
    {<<c, <<>>>> : c \in ConfidenceValues} \cup {<<1000, <<TextUnsafe>>>>}

Records ==
    {RecordOf(a, v, p[1], p[2]) : a \in Categories, v \in Verdicts, p \in Profiles}

SeqsUpTo(S, n) == UNION {[1..k -> S] : k \in 0..n}

(***************************************************************************)
(* str.lower() and the substring test `keyword in text`.                   *)
(***************************************************************************)
UpperToLower ==
    [A |-> "a", B |-> "b", C |-> "c", D |-> "d", E |-> "e", F |-> "f",
     G |-> "g", H |-> "h", I |-> "i", J |-> "j", K |-> "k", L |-> "l",
     M |-> "m", N |-> "n", O |-> "o", P |-> "p", Q |-> "q", R |-> "r",
     S |-> "s", T |-> "t", U |-> "u", V |-> "v", W |-> "w", X |-> "x",
     Y |-> "y", Z |-> "z"]

lower(text) ==
    [i \in 1..Len(text) |->
        IF text[i] \in DOMAIN UpperToLower THEN UpperToLower[text[i]]
        ELSE text[i]]

Contains(text, keyword) ==
    \E i \in 1..(Len(text) - Len(keyword) + 1) :
        SubSeq(text, i, i + Len(keyword) - 1) = keyword

(***************************************************************************)
(* Exact arithmetic on quotients [num, den], den > 0.                      *)
(***************************************************************************)
Quot(n, d) == [num |-> n, den |-> d]

QuotLess(q, t) == q.num < t * q.den

\* round(x, 3) of a per-mille quotient: the nearest integer, ties to even
Round3(q) ==
    LET fl  == q.num \div q.den
        rem == q.num % q.den
    IN  IF 2 * rem < q.den THEN fl
        ELSE IF 2 * rem > q.den THEN fl + 1
        ELSE IF fl % 2 = 0 THEN fl ELSE fl + 1

RECURSIVE SumOver(_, _)
SumOver(f, S) ==
    IF S = {} THEN 0
    ELSE LET x == CHOOSE y \in S : TRUE
         IN  f[x] + SumOver(f, S \ {x})

(***************************************************************************)
(* app/utils/scoring.py                                                    *)
(***************************************************************************)
VERDICT_SCORE_MAP ==
    [x \in Verdicts |->
        CASE x = "Appropriate"           -> 10
          [] x = "Partially Appropriate" -> 6
          [] x = "Inappropriate"         -> 0]

SCORING_STEP_WEIGHTS ==
    [s \in Steps |->
        CASE s = "HISTORY" ->
               [CommunicationAgent |-> 5, KnowledgeAgent |-> 4, ClinicalAgent |-> 1]
          [] s = "ASSESSMENT" ->
               [CommunicationAgent |-> 3, KnowledgeAgent |-> 7, ClinicalAgent |-> 0]
          [] s = "CLEANING" ->
               [CommunicationAgent |-> 1, KnowledgeAgent |-> 1, ClinicalAgent |-> 8]
          [] s = "DRESSING" ->
               [CommunicationAgent |-> 1, KnowledgeAgent |-> 1, ClinicalAgent |-> 8]]

STEP_THRESHOLD ==
    [s \in Steps |->
        CASE s = "HISTORY"    -> 600
          [] s = "ASSESSMENT" -> 600
          [] s = "CLEANING"   -> 700
          [] s = "DRESSING"   -> 700]

\* score_single_evaluation multiplying by 1 - confidence
score_single_evaluation_inverted(ev) ==
    DictGet(VERDICT_SCORE_MAP, ev.verdict, 0) * (1000 - ev.confidence)

\* base_score * confidence, in per mille times ten
score_single_evaluation(ev) ==
    DictGet(VERDICT_SCORE_MAP, ev.verdict, 0) * ev.confidence

\* composite_score: the sum of score * weight over the list, round(., 3)
aggregate_scores(evals, current_step) ==
    LET weights == DictGet(SCORING_STEP_WEIGHTS, current_step, EmptyDict)
        term == [i \in 1..Len(evals) |->
                    score_single_evaluation(evals[i])
                      * DictGet(weights, agent_name(evals[i]), 0)]
    IN  [agent_scores |->
            [a \in {agent_name(evals[i]) : i \in 1..Len(evals)} |->
                LET k == CHOOSE i \in 1..Len(evals) :
                            /\ agent_name(evals[i]) = a
                            /\ \A j \in (i + 1)..Len(evals) : agent_name(evals[j]) # a
                IN  Quot(score_single_evaluation(evals[k]), 10)],
         composite_score |-> Round3(Quot(SumOver(term, 1..Len(evals)), 100))]

ClinicalBlocks(ev, current_step) ==
    /\ ev.verdict = "Inappropriate"
    /\ current_step \in {"CLEANING", "DRESSING"}
    /\ agent_name(ev) = "ClinicalAgent"

RECURSIVE BlockingIssues(_, _)
BlockingIssues(evals, current_step) ==
    IF evals = <<>> THEN <<>>
    ELSE (IF ClinicalBlocks(Head(evals), current_step)
          THEN <<"Critical clinical issue detected by ClinicalAgent">>
          ELSE <<>>) \o BlockingIssues(Tail(evals), current_step)

check_readiness(evals, current_step, composite_score) ==
    LET blocking_issues == BlockingIssues(evals, current_step)
        threshold       == DictGet(STEP_THRESHOLD, current_step, 1000)
    IN  [ready_for_next_step |->
            composite_score >= threshold /\ blocking_issues = <<>>,
         blocking_issues |-> blocking_issues,
         threshold |-> threshold]

(***************************************************************************)
(* app/core/coordinator.py                                                 *)
(***************************************************************************)
STEP_WEIGHTS ==
    [s \in Steps |->
        CASE s = "HISTORY"    -> [communication |-> 5, knowledge |-> 4, clinical |-> 1]
          [] s = "ASSESSMENT" -> [communication |-> 2, knowledge |-> 6, clinical |-> 2]
          [] s = "CLEANING"   -> [communication |-> 1, knowledge |-> 2, clinical |-> 7]
          [] s = "DRESSING"   -> [communication |-> 1, knowledge |-> 2, clinical |-> 7]]

READINESS_THRESHOLDS ==
    [s \in Steps |->
        CASE s = "HISTORY"    -> 600
          [] s = "ASSESSMENT" -> 650
          [] s = "CLEANING"   -> 700
          [] s = "DRESSING"   -> 700]

critical_keywords ==
    {<<"u", "n", "s", "a", "f", "e">>,
     <<"d", "a", "n", "g", "e", "r", "o", "u", "s">>,
     <<"c", "o", "n", "t", "r", "a", "i", "n", "d", "i", "c", "a", "t", "e", "d">>,
     <<"e", "r", "r", "o", "r">>}

\* agent_evals[agent_name] = ev for each ev in order: the later record wins
RECURSIVE agent_evals(_)
agent_evals(evals) ==
    IF evals = <<>> THEN EmptyDict
    ELSE LET n == Len(evals)
         IN  DictSet(agent_evals(SubSeq(evals, 1, n - 1)), evals[n].agent, evals[n])

calculate_weighted_confidence(by_agent, weights) ==
    LET present      == (DOMAIN weights) \cap (DOMAIN by_agent)
        weighted_sum == SumOver([a \in present |->
                                    DictGet(by_agent[a], "confidence", 0) * weights[a]],
                                present)
        total_weight == SumOver([a \in present |-> weights[a]], present)
    IN  IF total_weight > 0 THEN Quot(weighted_sum, total_weight) ELSE Quot(0, 1)

\* max(weights.items(), key=lambda x: x[1])[0]: the first key of largest weight
dominant_agent(weights) ==
    LET i == CHOOSE i \in 1..Len(CategoryOrder) :
                /\ \A j \in 1..Len(CategoryOrder) :
                      weights[CategoryOrder[j]] <= weights[CategoryOrder[i]]
                /\ \A j \in 1..(i - 1) :
                      weights[CategoryOrder[j]] < weights[CategoryOrder[i]]
    IN  CategoryOrder[i]

check_critical_issues(by_agent, current_step) ==
    LET dominant == dominant_agent(STEP_WEIGHTS[current_step])
    IN  /\ dominant \in DOMAIN by_agent
        /\ LET issues == by_agent[dominant].issues_detected
           IN  \/ Len(issues) > 2
               \/ \E i \in 1..Len(issues) :
                     \E keyword \in critical_keywords :
                        Contains(lower(issues[i]), keyword)

\* assess_readiness with `<=` for `<` in its threshold test
assess_readiness_strict(by_agent, weighted_confidence, threshold, current_step) ==
    IF ~QuotLess(Quot(threshold * weighted_confidence.den, 1), weighted_confidence.num)
    THEN FALSE
    ELSE IF check_critical_issues(by_agent, current_step) THEN FALSE
    ELSE TRUE

assess_readiness(by_agent, weighted_confidence, threshold, current_step) ==
    IF QuotLess(weighted_confidence, threshold) THEN FALSE
    ELSE IF check_critical_issues(by_agent, current_step) THEN FALSE
    ELSE TRUE

\* coordinate without the early return of its empty-list test
coordinate_without_empty_test(evals, current_step) ==
    LET step      == IF current_step \notin DOMAIN STEP_WEIGHTS
                     THEN "HISTORY" ELSE current_step
        weights   == STEP_WEIGHTS[step]
        threshold == READINESS_THRESHOLDS[step]
        by_agent  == agent_evals(evals)
        weighted_confidence == calculate_weighted_confidence(by_agent, weights)
    IN  [overall_feedback         |-> "feedback",
         readiness_for_next_step  |->
             assess_readiness(by_agent, weighted_confidence, threshold, step),
         aggregated_confidence    |-> Round3(weighted_confidence),
         agent_contributions      |-> (DOMAIN weights) \cap (DOMAIN by_agent)]

coordinate(evals, current_step) ==
    IF evals = <<>>
    THEN [overall_feedback         |-> "No evaluations provided",
          readiness_for_next_step  |-> FALSE,
          aggregated_confidence    |-> 0,
          agent_contributions      |-> {}]
    ELSE LET step      == IF current_step \notin DOMAIN STEP_WEIGHTS
                          THEN "HISTORY" ELSE current_step
             weights   == STEP_WEIGHTS[step]
             threshold == READINESS_THRESHOLDS[step]
             by_agent  == agent_evals(evals)
             weighted_confidence == calculate_weighted_confidence(by_agent, weights)
         IN  [overall_feedback         |-> "feedback",
              readiness_for_next_step  |->
                  assess_readiness(by_agent, weighted_confidence, threshold, step),
              aggregated_confidence    |-> Round3(weighted_confidence),
              agent_contributions      |-> (DOMAIN weights) \cap (DOMAIN by_agent)]

(***************************************************************************)
(* EvaluationService (app/services/evaluation_service.py)                  *)
(***************************************************************************)
\* coordinated_result.get("ready_for_next_step", False) and
\* coordinated_result.get("blocking_issues", []): coordinate returns neither key
format_for_vr(coordinated_result, current_step) ==
    [step      |-> current_step,
     readiness |->
        [ready_for_next_step |->
            DictGet(coordinated_result, "ready_for_next_step", FALSE),
         blocking_issues |->
            DictGet(coordinated_result, "blocking_issues", <<>>)],
     composite |-> 0,
     overall_summary |-> DictGet(coordinated_result, "overall_feedback", ""),
     agent_details   |-> DictGet(coordinated_result, "agent_contributions", {})]

aggregate_evaluations(evaluator_outputs, step) ==
    format_for_vr(coordinate(evaluator_outputs, step), step)

\* what process_step_result is given: the readiness part of a VR response
CoordinatorOutputs ==
    [readiness :
        [ready_for_next_step : BOOLEAN,
         blocking_issues :
            {<<>>, <<"Critical clinical issue detected by ClinicalAgent">>}]]

\* what an operation returned; fields an operation does not return keep
\* their defaults
Response(op, sid, status) ==
    [op |-> op, sid |-> sid, status |-> status,
     current_step |-> NoStep, previous_step |-> NoStep, next_step |-> NoStep,
     attempt_number |-> 0, ready |-> FALSE, blocked |-> FALSE]

process_step_result(store, sid, coordinator_output) ==
    IF sid \notin DOMAIN store
    THEN [store |-> store,
          response |-> Response("process_step_result", sid, "ValueError")]
    ELSE
    LET stored          == store_last_evaluation(store, sid, coordinator_output)
        readiness       == coordinator_output.readiness
        blocking_issues == readiness.blocking_issues
        base == [Response("process_step_result", sid, "") EXCEPT
                    !.ready   = readiness.ready_for_next_step,
                    !.blocked = blocking_issues # <<>>]
    IN  IF blocking_issues # <<>>
        THEN LET locked == lock_current_step(stored, sid)
             IN  [store |-> locked,
                  response |-> [base EXCEPT
                      !.status = "LOCKED",
                      !.current_step = locked[sid].current_step]]
        ELSE IF ~readiness.ready_for_next_step
        THEN LET counted == increment_attempt(stored, sid)
                 session == counted[sid]
             IN  [store |-> counted,
                  response |-> [base EXCEPT
                      !.status = "RETRY",
                      !.current_step = session.current_step,
                      !.attempt_number =
                          DictGet(session.attempt_count, session.current_step, 1)]]
        ELSE LET returned == advance_step_returns(stored, sid)
                 advanced == reset_attempts(advance_step(stored, sid), sid)
             IN  [store |-> advanced,
                  response |-> [base EXCEPT
                      !.status = "ADVANCED",
                      !.previous_step = advanced[sid].current_step,
                      !.current_step = returned]]

(***************************************************************************)
(* POST /session/step (app/api/session_routes.py).  aggregation_raises is  *)
(* the outcome of the awaited aggregate_evaluations call.                  *)
(***************************************************************************)
session_step(store, sid, evaluator_outputs, aggregation_raises) ==
    IF sid \notin DOMAIN store
    THEN [store |-> store, response |-> Response("session_step", sid, "404")]
    ELSE
    LET cur_step   == store[sid].current_step
        evaluation == aggregate_evaluations(evaluator_outputs, cur_step)
    IN  IF aggregation_raises
        THEN [store |-> store, response |-> Response("session_step", sid, "500")]
        ELSE [store |->
                 IF NextStepRaises(cur_step) THEN store
                 ELSE [store EXCEPT ![sid].current_step = next_step(cur_step)],
              response |-> [Response("session_step", sid, "200") EXCEPT
                 !.current_step = cur_step,
                 !.next_step = IF NextStepRaises(cur_step) THEN NoStep
                               ELSE next_step(cur_step),
                 !.ready = evaluation.readiness.ready_for_next_step,
                 !.blocked = evaluation.readiness.blocking_issues # <<>>]]

\* the evaluator_outputs of the step requests
StepPayloads ==
    {<<>>,
     <<RecordOf("communication", "Appropriate", 1000, <<>>),
       RecordOf("knowledge", "Appropriate", 1000, <<>>),
       RecordOf("clinical", "Appropriate", 1000, <<>>)>>,
     <<RecordOf("clinical", "Inappropriate", 1000, <<TextUnsafe>>)>>}

\* the evaluation of a direct store_last_evaluation call: a VR response
StoredEvaluations == {aggregate_evaluations(<<>>, StepOrder[1])}

TextUnsafeTechnique ==
    <<"u", "n", "s", "a", "f", "e", " ", "t", "e", "c", "h", "n", "i", "q", "u",
      "e", " ", "o", "b", "s", "e", "r", "v", "e", "d">>

\* the evaluator_outputs of the evaluated requests
EvaluatedPayloads ==
    {<<>>,
     <<RecordOf("communication", "Appropriate", 900, <<>>),
       RecordOf("knowledge", "Partially Appropriate", 800, <<>>),
       RecordOf("clinical", "Appropriate", 1000, <<>>)>>,
     <<RecordOf("communication", "Appropriate", 1000, <<>>),
       RecordOf("clinical", "Inappropriate", 1000, <<TextUnsafeTechnique>>)>>,
     <<RecordOf("clinical", "Inappropriate", 600, <<TextUnsafeTechnique>>)>>}

(***************************************************************************)
(* The session machine: one action per operation.                          *)
(***************************************************************************)
AttemptsBelowCap(sid) ==
    sid \in DOMAIN sessions =>
        DictGet(sessions[sid].attempt_count, sessions[sid].current_step, 0)
            < MaxAttempts

Tick ==
    /\ now < MaxClock
    /\ now' = now + 1
    /\ UNCHANGED <<sessions, last, nops>>

CreateSession ==
    /\ Cardinality(DOMAIN sessions) < MaxSessions
    /\ sessions' = create_session(sessions, now)
    /\ last' = Response("create_session", NewSessionId(sessions, now), "OK")
    /\ UNCHANGED now

DeleteSession(sid) ==
    /\ sessions' = delete_session(sessions, sid)
    /\ last' = Response("delete_session", sid,
                        IF sid \in DOMAIN sessions THEN "True" ELSE "False")
    /\ UNCHANGED now

ProcessStepResult(sid, coordinator_output) ==
    /\ (/\ coordinator_output.readiness.blocking_issues = <<>>
        /\ ~coordinator_output.readiness.ready_for_next_step)
          => AttemptsBelowCap(sid)
    /\ LET r == process_step_result(sessions, sid, coordinator_output)
       IN  /\ sessions' = r.store
           /\ last' = r.response
    /\ UNCHANGED now

SessionStep(sid, evaluator_outputs, aggregation_raises) ==
    /\ LET r == session_step(sessions, sid, evaluator_outputs, aggregation_raises)
       IN  /\ sessions' = r.store
           /\ last' = r.response
    /\ UNCHANGED now

AdvanceStep(sid) ==
    /\ sessions' = advance_step(sessions, sid)
    /\ last' = [Response("advance_step", sid, "OK") EXCEPT
                   !.current_step = advance_step_returns(sessions, sid)]
    /\ UNCHANGED now

IncrementAttempt(sid) ==
    /\ AttemptsBelowCap(sid)
    /\ sessions' = increment_attempt(sessions, sid)
    /\ last' = Response("increment_attempt", sid, "OK")
    /\ UNCHANGED now

ResetAttempts(sid) ==
    /\ sessions' = reset_attempts(sessions, sid)
    /\ last' = Response("reset_attempts", sid, "OK")
    /\ UNCHANGED now

LockCurrentStep(sid) ==
    /\ sessions' = lock_current_step(sessions, sid)
    /\ last' = Response("lock_current_step", sid, "OK")
    /\ UNCHANGED now

StoreLastEvaluation(sid, evaluation) ==
    /\ sessions' = store_last_evaluation(sessions, sid, evaluation)
    /\ last' = Response("store_last_evaluation", sid, "OK")
    /\ UNCHANGED now

NoResult ==
    [op |-> "none", ready_for_next_step |-> FALSE, blocking_issues |-> <<>>,
     composite |-> Quot(0, 1), threshold |-> 0]

\* an event loop with no coroutine submitted
NoLoop == [start |-> EmptyDict, running |-> 0, tasks |-> <<>>]

Init ==
    /\ sessions = EmptyDict
    /\ now = 0
    /\ last = Response("init", UnknownId, "")
    /\ nops = 0
    /\ evaluations = <<>>
    /\ step_in = StepOrder[1]
    /\ result = NoResult
    /\ loop = NoLoop

\* the session ids an operation is called with
SidInputs == (DOMAIN sessions) \cup {UnknownId}

Called(op) ==
    /\ nops < MaxOps
    /\ op
    /\ nops' = nops + 1
    /\ UNCHANGED <<evalVars, loop>>

Next ==
    \/ Tick /\ UNCHANGED <<evalVars, loop>>
    \/ Called(CreateSession)
    \/ \E sid \in SidInputs : Called(DeleteSession(sid))
    \/ \E sid \in SidInputs, out \in CoordinatorOutputs :
          Called(ProcessStepResult(sid, out))
    \/ \E sid \in SidInputs, payload \in StepPayloads, raises \in BOOLEAN :
          Called(SessionStep(sid, payload, raises))
    \/ \E sid \in SidInputs : Called(AdvanceStep(sid))
    \/ \E sid \in SidInputs : Called(IncrementAttempt(sid))
    \/ \E sid \in SidInputs : Called(ResetAttempts(sid))
    \/ \E sid \in SidInputs : Called(LockCurrentStep(sid))
    \/ \E sid \in SidInputs, evaluation \in StoredEvaluations :
          Called(StoreLastEvaluation(sid, evaluation))

Spec == Init /\ [][Next]_vars

(***************************************************************************)
(* The readiness engines as pure functions: the inputs are drawn in        *)
(* InitEval and each action applies one engine to them.                    *)
(***************************************************************************)
InitEval ==
    /\ sessions = EmptyDict
    /\ now = 0
    /\ last = Response("init", UnknownId, "")
    /\ nops = 0
    /\ evaluations \in SeqsUpTo(Records, MaxRecords)
    /\ step_in \in Steps
    /\ result = NoResult
    /\ loop = NoLoop

\* coordinate(evaluations, step_in), with the values _assess_readiness was given
Coordinate ==
    /\ evaluations # <<>>
    /\ LET by_agent == agent_evals(evaluations)
       IN  result' =
             [op |-> "coordinate",
              ready_for_next_step |->
                  coordinate(evaluations, step_in).readiness_for_next_step,
              blocking_issues |->
                  IF check_critical_issues(by_agent, step_in)
                  THEN <<"critical issue">> ELSE <<>>,
              composite |->
                  calculate_weighted_confidence(by_agent, STEP_WEIGHTS[step_in]),
              threshold |-> READINESS_THRESHOLDS[step_in]]
    /\ UNCHANGED <<evaluations, step_in, sessionVars, loop>>

\* check_readiness on the composite score that aggregate_scores returns
CheckReadiness ==
    /\ LET composite_score == aggregate_scores(evaluations, step_in).composite_score
           r == check_readiness(evaluations, step_in, composite_score)
       IN  result' =
             [op |-> "check_readiness",
              ready_for_next_step |-> r.ready_for_next_step,
              blocking_issues |-> r.blocking_issues,
              composite |-> Quot(composite_score, 1),
              threshold |-> r.threshold]
    /\ UNCHANGED <<evaluations, step_in, sessionVars, loop>>

NextEval ==
    \/ Coordinate
    \/ CheckReadiness

SpecEval == InitEval /\ [][NextEval]_vars

(***************************************************************************)
(* A step request evaluated end to end: the evaluator outputs are          *)
(* aggregated for the session's current step and the aggregated result is  *)
(* handed to the gatekeeper.  evaluations, step_in and result hold what the *)
(* last such request aggregated; any other call clears them.               *)
(***************************************************************************)
EvaluateStep(sid, evaluator_outputs) ==
    /\ nops < MaxOps
    /\ sid \in DOMAIN sessions
    /\ AttemptsBelowCap(sid)
    /\ LET step       == sessions[sid].current_step
           evaluation == aggregate_evaluations(evaluator_outputs, step)
           r          == process_step_result(sessions, sid, evaluation)
       IN  /\ sessions' = r.store
           /\ last' = r.response
           /\ evaluations' = evaluator_outputs
           /\ step_in' = step
           /\ result' =
                [op |-> "aggregate_evaluations",
                 ready_for_next_step |-> evaluation.readiness.ready_for_next_step,
                 blocking_issues |-> evaluation.readiness.blocking_issues,
                 composite |-> Quot(evaluation.composite, 1),
                 threshold |-> READINESS_THRESHOLDS[step]]
    /\ nops' = nops + 1
    /\ UNCHANGED <<now, loop>>

CalledAlone(op) ==
    /\ nops < MaxOps
    /\ op
    /\ nops' = nops + 1
    /\ evaluations' = <<>>
    /\ step_in' = StepOrder[1]
    /\ result' = NoResult
    /\ UNCHANGED loop

NextEvaluated ==
    \/ CalledAlone(CreateSession)
    \/ \E sid \in DOMAIN sessions : CalledAlone(AdvanceStep(sid))
    \/ \E sid \in DOMAIN sessions : CalledAlone(LockCurrentStep(sid))
    \/ \E sid \in DOMAIN sessions : CalledAlone(IncrementAttempt(sid))
    \/ \E sid \in DOMAIN sessions, payload \in EvaluatedPayloads :
          EvaluateStep(sid, payload)

SpecEvaluated == Init /\ [][NextEvaluated]_vars

(***************************************************************************)
(* Concurrent step results.  process_step_result is a coroutine on the     *)
(* asyncio event loop: several calls for one session are submitted         *)
(* together, the loop runs one coroutine at a time, and another coroutine  *)
(* gets the loop only when the running one awaits or returns.  A step of a  *)
(* coroutine is one call of a SessionManager method.                       *)
(***************************************************************************)
\* process_step_result with an await between advance_step and reset_attempts
AwaitPoints_before_reset == {"advanced"}

\* the program points of process_step_result at which it awaits: its body
\* holds no await expression
AwaitPoints == {}

\* the session all the coroutines are called for
ConcurrentSid == NewSessionId(EmptyDict, 0)

StartStores ==
    {[create_session(EmptyDict, 0) EXCEPT ![ConcurrentSid].current_step = s] :
        s \in Steps}

Task(coordinator_output) ==
    [pc |-> "pending", coordinator_output |-> coordinator_output, status |-> ""]

InitConcurrent ==
    /\ \E start \in StartStores, outs \in [1..MaxTasks -> CoordinatorOutputs] :
          /\ sessions = start
          /\ loop = [start   |-> start,
                     running |-> 0,
                     tasks   |-> [t \in 1..MaxTasks |-> Task(outs[t])]]
    /\ now = 0
    /\ last = Response("init", UnknownId, "")
    /\ nops = 0
    /\ evaluations = <<>>
    /\ step_in = StepOrder[1]
    /\ result = NoResult

\* coroutine t may take a step: it holds the loop, or the loop is free
CanRun(t) ==
    /\ loop.tasks[t].pc # "done"
    /\ loop.running \in {0, t}

\* coroutine t moves to pc and gives the loop up if it awaits or returns there
Resume(t, pc, status) ==
    loop' = [loop EXCEPT
                !.tasks[t].pc = pc,
                !.tasks[t].status = status,
                !.running = IF pc = "done" \/ pc \in AwaitPoints THEN 0 ELSE t]

\* session = self.session_manager.get_session(session_id)
TaskGetSession(t) ==
    /\ CanRun(t)
    /\ loop.tasks[t].pc = "pending"
    /\ IF ConcurrentSid \in DOMAIN sessions
       THEN Resume(t, "found", "")
       ELSE Resume(t, "done", "ValueError")
    /\ UNCHANGED <<sessions, now, last, nops, evalVars>>

TaskStoreLastEvaluation(t) ==
    /\ CanRun(t)
    /\ loop.tasks[t].pc = "found"
    /\ sessions' = store_last_evaluation(sessions, ConcurrentSid,
                                         loop.tasks[t].coordinator_output)
    /\ Resume(t, "stored", "")
    /\ UNCHANGED <<now, last, nops, evalVars>>

TaskLock(t) ==
    /\ CanRun(t)
    /\ loop.tasks[t].pc = "stored"
    /\ loop.tasks[t].coordinator_output.readiness.blocking_issues # <<>>
    /\ sessions' = lock_current_step(sessions, ConcurrentSid)
    /\ Resume(t, "done", "LOCKED")
    /\ UNCHANGED <<now, last, nops, evalVars>>

TaskRetry(t) ==
    /\ CanRun(t)
    /\ loop.tasks[t].pc = "stored"
    /\ loop.tasks[t].coordinator_output.readiness.blocking_issues = <<>>
    /\ ~loop.tasks[t].coordinator_output.readiness.ready_for_next_step
    /\ sessions' = increment_attempt(sessions, ConcurrentSid)
    /\ Resume(t, "done", "RETRY")
    /\ UNCHANGED <<now, last, nops, evalVars>>

TaskAdvance(t) ==
    /\ CanRun(t)
    /\ loop.tasks[t].pc = "stored"
    /\ loop.tasks[t].coordinator_output.readiness.blocking_issues = <<>>
    /\ loop.tasks[t].coordinator_output.readiness.ready_for_next_step
    /\ sessions' = advance_step(sessions, ConcurrentSid)
    /\ Resume(t, "advanced", "")
    /\ UNCHANGED <<now, last, nops, evalVars>>

TaskResetAttempts(t) ==
    /\ CanRun(t)
    /\ loop.tasks[t].pc = "advanced"
    /\ sessions' = reset_attempts(sessions, ConcurrentSid)
    /\ Resume(t, "done", "ADVANCED")
    /\ UNCHANGED <<now, last, nops, evalVars>>

NextConcurrent ==
    \/ \E t \in DOMAIN loop.tasks : TaskGetSession(t)
    \/ \E t \in DOMAIN loop.tasks : TaskStoreLastEvaluation(t)
    \/ \E t \in DOMAIN loop.tasks : TaskLock(t)
    \/ \E t \in DOMAIN loop.tasks : TaskRetry(t)
    \/ \E t \in DOMAIN loop.tasks : TaskAdvance(t)
    \/ \E t \in DOMAIN loop.tasks : TaskResetAttempts(t)

SpecConcurrent == InitConcurrent /\ [][NextConcurrent]_vars

(***************************************************************************)
(* Concurrent step requests.  session_step is a coroutine on the event     *)
(* loop.  It gives the loop up at `await retrieve_with_rag`, which waits   *)
(* for the OpenAI client, and only there: `await aggregate_evaluations`    *)
(* runs a coroutine that never waits.  A request can be cancelled while it *)
(* is suspended.  The evaluation goes to the log and to the response only, *)
(* so the evaluator_outputs of a request are left out.                     *)
(***************************************************************************)
\* next_s = next_step(Step(cur_step)); session["current_step"] = next_s.value
\* inside try/except pass, from the cur_step read at the start of the request
step_transition(store, sid, cur_step) ==
    IF sid \notin DOMAIN store \/ NextStepRaises(cur_step) THEN store
    ELSE [store EXCEPT ![sid].current_step = next_step(cur_step)]

\* the aggregation error path running the step transition before it raises
on_aggregation_error_after_transition(store, sid, cur_step) ==
    step_transition(store, sid, cur_step)

\* except Exception: raise HTTPException(500): nothing was written
on_aggregation_error(store, sid, cur_step) == store

\* the program points of session_step at which the loop is given up
RequestAwaitPoints == {"retrieving"}

Request(user_input) ==
    [pc |-> "pending", user_input |-> user_input, cur_step |-> NoStep,
     status |-> ""]

InitRequests ==
    /\ \E start \in StartStores, inputs \in [1..MaxRequests -> BOOLEAN] :
          /\ sessions = start
          /\ loop = [start   |-> start,
                     running |-> 0,
                     tasks   |-> [t \in 1..MaxRequests |-> Request(inputs[t])]]
    /\ now = 0
    /\ last = Response("init", UnknownId, "")
    /\ nops = 0
    /\ evaluations = <<>>
    /\ step_in = StepOrder[1]
    /\ result = NoResult

ResumeRequest(t, pc, status) ==
    [loop EXCEPT
        !.tasks[t].pc = pc,
        !.tasks[t].status = status,
        !.running = IF pc = "done" \/ pc \in RequestAwaitPoints THEN 0 ELSE t]

\* session = get_session(sid); cur_step = session["current_step"]; with a
\* user_input the request then waits for the retrieval
RequestRead(t) ==
    /\ CanRun(t)
    /\ loop.tasks[t].pc = "pending"
    /\ loop' =
         IF ConcurrentSid \notin DOMAIN sessions
         THEN ResumeRequest(t, "done", "404")
         ELSE [ResumeRequest(t, IF loop.tasks[t].user_input THEN "retrieving"
                                ELSE "retrieved", "")
                 EXCEPT !.tasks[t].cur_step = sessions[ConcurrentSid].current_step]
    /\ UNCHANGED <<sessions, now, last, nops, evalVars>>

\* the retrieval returned or raised: add_rag_result, or the error is printed
RequestRetrieved(t) ==
    /\ CanRun(t)
    /\ loop.tasks[t].pc = "retrieving"
    /\ loop' = ResumeRequest(t, "retrieved", "")
    /\ UNCHANGED <<sessions, now, last, nops, evalVars>>

\* the request is abandoned while it waits for the retrieval
RequestCancelled(t) ==
    /\ loop.running = 0
    /\ loop.tasks[t].pc = "retrieving"
    /\ loop' = ResumeRequest(t, "done", "cancelled")
    /\ UNCHANGED <<sessions, now, last, nops, evalVars>>

\* aggregate_evaluations returned (add_log follows) or raised (HTTP 500)
RequestAggregate(t, aggregation_raises) ==
    /\ CanRun(t)
    /\ loop.tasks[t].pc = "retrieved"
    /\ IF aggregation_raises
       THEN /\ sessions' = on_aggregation_error(sessions, ConcurrentSid,
                                                loop.tasks[t].cur_step)
            /\ loop' = ResumeRequest(t, "done", "500")
       ELSE /\ sessions' = sessions
            /\ loop' = ResumeRequest(t, "logged", "")
    /\ UNCHANGED <<now, last, nops, evalVars>>

RequestStepTransition(t) ==
    /\ CanRun(t)
    /\ loop.tasks[t].pc = "logged"
    /\ sessions' = step_transition(sessions, ConcurrentSid, loop.tasks[t].cur_step)
    /\ loop' = ResumeRequest(t, "done", "200")
    /\ UNCHANGED <<now, last, nops, evalVars>>

NextRequests ==
    \/ \E t \in DOMAIN loop.tasks : RequestRead(t)
    \/ \E t \in DOMAIN loop.tasks : RequestRetrieved(t)
    \/ \E t \in DOMAIN loop.tasks : RequestCancelled(t)
    \/ \E t \in DOMAIN loop.tasks, raises \in BOOLEAN : RequestAggregate(t, raises)
    \/ \E t \in DOMAIN loop.tasks : RequestStepTransition(t)

SpecRequests == InitRequests /\ [][NextRequests]_vars

(***************************************************************************)
(* One session driven by process_step_result calls alone.                  *)
(***************************************************************************)
InitProgress ==
    /\ sessions = create_session(EmptyDict, 0)
    /\ now = 0
    /\ last = Response("create_session", ConcurrentSid, "OK")
    /\ nops = 0
    /\ evaluations = <<>>
    /\ step_in = StepOrder[1]
    /\ result = NoResult
    /\ loop = NoLoop

NextProgress ==
    \E out \in CoordinatorOutputs : Called(ProcessStepResult(ConcurrentSid, out))

SpecProgress == InitProgress /\ [][NextProgress]_vars

(***************************************************************************)
(* The aggregation on inputs a caller can hand it: a step name outside the *)
(* four steps, dicts without a confidence or with one outside [0,1], and   *)
(* MCQ answers.  evaluations holds the caller's records, result what the   *)
(* last call returned.                                                     *)
(***************************************************************************)
UnknownStep == "SUTURING"

StepInputs == Steps \cup {UnknownStep}

\* a dict that carries no "confidence" key
RecordWithout(a, v, i) == [agent |-> a, verdict |-> v, issues_detected |-> i]

InputRecords ==
    {RecordWithout(a, "Appropriate", <<>>) : a \in Categories}
      \cup {RecordOf(a, "Appropriate", -500, <<>>) : a \in Categories}
      \cup {RecordOf(a, "Partially Appropriate", 500, <<>>) : a \in Categories}
      \cup {RecordOf(a, "Appropriate", 1500, <<>>) : a \in Categories}

\* no student_mcq_answers in the call
NoMcq == -1

\* mcq_result["score"] of the validated answers, in per mille
McqInputs == {NoMcq, 0, 1000}

HasConfidence(evals) ==
    \A i \in 1..Len(evals) : "confidence" \in DOMAIN evals[i]

\* _evaluator_to_dict: a new dict with the fields of the schema object
evaluator_to_dict(evaluator) ==
    [agent           |-> evaluator.agent,
     verdict         |-> evaluator.verdict,
     confidence      |-> evaluator.confidence,
     issues_detected |-> evaluator.issues_detected]

\* _validate_mcq_step: the first knowledge dict gets
\* confidence = original_confidence * 0.6 + mcq_score * 0.4, in place
RECURSIVE validate_mcq_step(_, _)
validate_mcq_step(evaluator_dicts, mcq_score) ==
    IF evaluator_dicts = <<>> THEN <<>>
    ELSE LET eval_data == Head(evaluator_dicts)
         IN  IF eval_data.agent = "knowledge"
             THEN <<[x \in (DOMAIN eval_data) \cup {"confidence"} |->
                        IF x = "confidence"
                        THEN (DictGet(eval_data, "confidence", 500) * 6
                                + mcq_score * 4) \div 10
                        ELSE eval_data[x]]>> \o Tail(evaluator_dicts)
             ELSE <<eval_data>> \o validate_mcq_step(Tail(evaluator_dicts), mcq_score)

\* the caller's records seen after the call if the dicts were the caller's
\* own objects
caller_records_aliased(evaluator_outputs, evaluator_dicts) == evaluator_dicts

\* the caller's records after the call: the dicts are new objects, so what
\* is written to them does not reach the records
caller_records(evaluator_outputs, evaluator_dicts) == evaluator_outputs

\* aggregate_evaluations with its optional MCQ arguments; scenario_id given
aggregate_evaluations_mcq(evaluator_outputs, step, mcq_score) ==
    LET dicts   == [i \in 1..Len(evaluator_outputs) |->
                       evaluator_to_dict(evaluator_outputs[i])]
        blended == IF step = "ASSESSMENT" /\ mcq_score # NoMcq
                   THEN validate_mcq_step(dicts, mcq_score) ELSE dicts
        coordinated_result == coordinate(blended, step)
    IN  [evaluator_outputs |-> caller_records(evaluator_outputs, blended),
         internal          |-> coordinated_result,
         vr_response       |-> format_for_vr(coordinated_result, step)]

InitInputs ==
    /\ sessions = EmptyDict
    /\ now = 0
    /\ last = Response("init", UnknownId, "")
    /\ nops = 0
    /\ evaluations \in SeqsUpTo(InputRecords, MaxRecords)
    /\ step_in \in StepInputs
    /\ result = NoResult
    /\ loop = NoLoop

AggregateEvaluations(mcq_score) ==
    /\ HasConfidence(evaluations)
    /\ LET r == aggregate_evaluations_mcq(evaluations, step_in, mcq_score)
       IN  /\ evaluations' = r.evaluator_outputs
           /\ result' =
                [op |-> "aggregate_evaluations",
                 mcq |-> mcq_score,
                 ready_for_next_step |-> r.vr_response.readiness.ready_for_next_step,
                 blocking_issues |-> r.vr_response.readiness.blocking_issues,
                 composite |-> Quot(r.vr_response.composite, 1),
                 response |-> r]
    /\ UNCHANGED <<step_in, sessionVars, loop>>

\* coordinate called on the dicts
CoordinateInputs ==
    /\ LET r == coordinate(evaluations, step_in)
       IN  result' =
             [op |-> "coordinate",
              mcq |-> NoMcq,
              ready_for_next_step |-> r.readiness_for_next_step,
              blocking_issues |-> <<>>,
              composite |-> Quot(r.aggregated_confidence, 1),
              response |-> r]
    /\ UNCHANGED <<evaluations, step_in, sessionVars, loop>>

\* aggregate_scores and check_readiness called on the schema objects
ScoreInputs ==
    /\ HasConfidence(evaluations)
    /\ LET scores == aggregate_scores(evaluations, step_in)
           r == check_readiness(evaluations, step_in, scores.composite_score)
       IN  result' =
             [op |-> "check_readiness",
              mcq |-> NoMcq,
              ready_for_next_step |-> r.ready_for_next_step,
              blocking_issues |-> r.blocking_issues,
              composite |-> Quot(scores.composite_score, 1),
              response |-> scores]
    /\ UNCHANGED <<evaluations, step_in, sessionVars, loop>>

NextInputs ==
    \/ \E mcq_score \in McqInputs : AggregateEvaluations(mcq_score)
    \/ CoordinateInputs
    \/ ScoreInputs

SpecInputs == InitInputs /\ [][NextInputs]_vars

(***************************************************************************)
(* The readiness engines on records with several detected issues.          *)
(***************************************************************************)
\* issues_detected lists of 0, 2 and 3 texts without a critical keyword
IssueLists == {<<>>, <<TextLate, TextSlow>>, <<TextLate, TextSlow, TextCurt>>}

IssueRecords ==
    {RecordOf(a, v, 1000, i) :
        a \in Categories, v \in {"Appropriate", "Inappropriate"}, i \in IssueLists}

InitIssues ==
    /\ sessions = EmptyDict
    /\ now = 0
    /\ last = Response("init", UnknownId, "")
    /\ nops = 0
    /\ evaluations \in SeqsUpTo(IssueRecords, MaxRecords)
    /\ step_in \in Steps
    /\ result = NoResult
    /\ loop = NoLoop

SpecIssues == InitIssues /\ [][NextEval]_vars

(***************************************************************************)
(* coordinate's step_feedback (_aggregate_step_feedback) on records that   *)
(* carry strengths, issues and missed points.                              *)
(***************************************************************************)
MaxFeedback == 3

TextCalm == <<"c", "a", "l", "m">>

TextKind == <<"k", "i", "n", "d">>

\* the agent keys of STEP_WEIGHTS as texts
AgentText ==
    [communication |-> <<"c", "o", "m", "m", "u", "n", "i", "c", "a", "t", "i", "o", "n">>,
     knowledge     |-> <<"k", "n", "o", "w", "l", "e", "d", "g", "e">>,
     clinical      |-> <<"c", "l", "i", "n", "i", "c", "a", "l">>]

IsLetter(ch) ==
    \/ ch \in DOMAIN UpperToLower
    \/ \E u \in DOMAIN UpperToLower : UpperToLower[u] = ch

upper(ch) ==
    IF \E u \in DOMAIN UpperToLower : UpperToLower[u] = ch
    THEN CHOOSE u \in DOMAIN UpperToLower : UpperToLower[u] = ch
    ELSE ch

\* str.title(): a letter that follows no letter is upper-cased, the others
\* are lower-cased
title(text) ==
    [i \in 1..Len(text) |->
        IF i = 1 \/ ~IsLetter(text[i - 1]) THEN upper(text[i])
        ELSE lower(<<text[i]>>)[1]]

\* [f"[{agent_name.title()}] {s}" for s in entries]
prefixed(agent, entries) ==
    [i \in 1..Len(entries) |->
        <<"[">> \o title(AgentText[agent]) \o <<"]", " ">> \o entries[i]]

\* sorted(weights.items(), key=lambda x: x[1], reverse=True) listing the
\* keys in ascending order of weight
sorted_agents_ascending(weights) ==
    LET before(b, a) ==
            \/ weights[b] < weights[a]
            \/ /\ weights[b] = weights[a]
               /\ \E i, j \in 1..Len(CategoryOrder) :
                     i < j /\ CategoryOrder[i] = b /\ CategoryOrder[j] = a
    IN  [k \in 1..Len(CategoryOrder) |->
            CHOOSE a \in Categories :
                Cardinality({b \in Categories : before(b, a)}) = k - 1]

\* sorted(weights.items(), key=lambda x: x[1], reverse=True): descending
\* weight, keys of equal weight in the order of the dict (the sort is stable)
sorted_agents(weights) ==
    LET before(b, a) ==
            \/ weights[b] > weights[a]
            \/ /\ weights[b] = weights[a]
               /\ \E i, j \in 1..Len(CategoryOrder) :
                     i < j /\ CategoryOrder[i] = b /\ CategoryOrder[j] = a
    IN  [k \in 1..Len(CategoryOrder) |->
            CHOOSE a \in Categories :
                Cardinality({b \in Categories : before(b, a)}) = k - 1]

\* one of all_strengths, all_issues, all_missed: the entries of `field` of
\* the agents from position k of sorted_agents on, weights in tenths
RECURSIVE extend_all(_, _, _, _)
extend_all(by_agent, weights, field, k) ==
    IF k > Len(CategoryOrder) THEN <<>>
    ELSE LET agent == sorted_agents(weights)[k]
         IN  (IF agent \in DOMAIN by_agent /\ weights[agent] > 1
              THEN prefixed(agent, DictGet(by_agent[agent], field, <<>>))
              ELSE <<>>) \o extend_all(by_agent, weights, field, k + 1)

aggregate_step_feedback(by_agent, weights) ==
    [strengths       |-> extend_all(by_agent, weights, "strengths", 1),
     issues_detected |-> extend_all(by_agent, weights, "issues_detected", 1),
     missed_points   |-> extend_all(by_agent, weights, "missed_points", 1)]

\* the step_feedback and aggregated confidence of coordinate's return value
coordinate_step_feedback(evals, current_step) ==
    IF evals = <<>>
    THEN [step_feedback |-> EmptyDict, weighted_confidence |-> Quot(0, 1)]
    ELSE LET step     == IF current_step \notin DOMAIN STEP_WEIGHTS
                         THEN "HISTORY" ELSE current_step
             weights  == STEP_WEIGHTS[step]
             by_agent == agent_evals(evals)
         IN  [step_feedback |-> aggregate_step_feedback(by_agent, weights),
              weighted_confidence |->
                  calculate_weighted_confidence(by_agent, weights)]

FeedbackRecord(a, c, strengths, issues, missed) ==
    [agent |-> a, verdict |-> "Appropriate", confidence |-> c,
     strengths |-> strengths, issues_detected |-> issues,
     missed_points |-> missed]

FeedbackRecords ==
    UNION {{FeedbackRecord(a, 1000, <<TextCalm, TextKind>>, <<>>, <<TextSlow>>),
            FeedbackRecord(a, 600, <<TextKind>>, <<TextLate, TextSlow>>, <<>>),
            FeedbackRecord(a, 700, <<>>, <<TextCurt>>, <<TextLate, TextCurt>>)}
           : a \in Categories}

InitFeedback ==
    /\ sessions = EmptyDict
    /\ now = 0
    /\ last = Response("init", UnknownId, "")
    /\ nops = 0
    /\ evaluations \in SeqsUpTo(FeedbackRecords, MaxFeedback)
    /\ step_in \in Steps
    /\ result = NoResult
    /\ loop = NoLoop

CoordinateFeedback ==
    /\ LET r == coordinate_step_feedback(evaluations, step_in)
       IN  result' =
             [op |-> "coordinate",
              ready_for_next_step |->
                  coordinate(evaluations, step_in).readiness_for_next_step,
              step_feedback |-> r.step_feedback,
              composite |-> r.weighted_confidence]
    /\ UNCHANGED <<evaluations, step_in, sessionVars, loop>>

NextFeedback == CoordinateFeedback

SpecFeedback == InitFeedback /\ [][NextFeedback]_vars

(***************************************************************************)
(* The evaluator agents (app/agents) and the loop that runs the three of   *)
(* them (app/scripts/manual_week4_test.py).  A raw response is what        *)
(* BaseAgent.run returned: parses says whether json.loads accepts it, data *)
(* is the parsed object.                                                   *)
(***************************************************************************)
\* the fields EvaluatorResponse declares with Field(...)
SchemaRequired ==
    {"agent_name", "step", "strengths", "issues_detected", "missed_points",
     "explanation", "confidence"}

\* pydantic accepts the keyword arguments
validates(kwargs) ==
    /\ SchemaRequired \subseteq DOMAIN kwargs
    /\ kwargs.confidence >= 0
    /\ kwargs.confidence <= 1000

\* the object built: the declared fields, references defaulting to [];
\* an argument that is no field of the model is dropped
EvaluatorResponse(kwargs) ==
    [f \in SchemaRequired \cup {"references"} |->
        IF f \in DOMAIN kwargs THEN kwargs[f] ELSE <<>>]

TextParsing ==
    <<"E", "r", "r", "o", "r", " ", "p", "a", "r", "s", "i", "n", "g">>

\* the JSON object the prompts ask for, with or without missed_points
LLMData(verdict, confidence, with_missed) ==
    LET asked == [agent_name |-> "Agent", step |-> "Current Step Name",
                  strengths |-> <<TextCalm>>, issues_detected |-> <<>>,
                  explanation |-> "reasoning", verdict |-> verdict,
                  confidence |-> confidence]
    IN  IF with_missed THEN DictSet(asked, "missed_points", <<TextSlow>>)
        ELSE asked

\* "{}": what BaseAgent.run returns when the model call failed
CallFailed == [parses |-> TRUE, data |-> EmptyDict]

Unparsable == [parses |-> FALSE, data |-> EmptyDict]

RawResponses ==
    {CallFailed, Unparsable}
      \cup {[parses |-> TRUE, data |-> LLMData(v, c, m)] :
               v \in {"Appropriate", "Inappropriate"}, c \in {0, 600, 800},
               m \in BOOLEAN}

\* the keyword arguments of the except block, the same in the three agents
fallback_kwargs(current_step) ==
    [agent_name      |-> "CommunicationAgent",
     step            |-> current_step,
     strengths       |-> <<>>,
     issues_detected |-> <<TextParsing>>,
     explanation     |-> "Failed to parse LLM output",
     verdict         |-> "Inappropriate",
     confidence      |-> 0]

\* <Agent>.evaluate after self.run returned raw_response
evaluate(agent, current_step, raw_response) ==
    LET response_data ==
            DictSet(DictSet(raw_response.data, "step", current_step),
                    "agent_name", agent_name([agent |-> agent]))
    IN  IF raw_response.parses /\ validates(response_data)
        THEN [raised |-> FALSE, response |-> EvaluatorResponse(response_data)]
        ELSE IF validates(fallback_kwargs(current_step))
        THEN [raised |-> FALSE,
              response |-> EvaluatorResponse(fallback_kwargs(current_step))]
        ELSE [raised |-> TRUE, response |-> EmptyDict]

\* evaluator_outputs after the loop over the agents from position k on
RECURSIVE run_agents(_, _, _)
run_agents(current_step, raw_responses, k) ==
    IF k > Len(CategoryOrder) THEN <<>>
    ELSE LET r == evaluate(CategoryOrder[k], current_step,
                           raw_responses[CategoryOrder[k]])
         IN  (IF r.raised THEN <<>> ELSE <<r.response>>)
               \o run_agents(current_step, raw_responses, k + 1)

InitAgents ==
    /\ sessions = EmptyDict
    /\ now = 0
    /\ last = Response("init", UnknownId, "")
    /\ nops = 0
    /\ evaluations = <<>>
    /\ step_in \in Steps
    /\ result = NoResult
    /\ loop = NoLoop

\* one run of the script: evaluator_outputs = [] and then the loop
RunAgents(raw_responses) ==
    /\ result = NoResult
    /\ evaluations' = run_agents(step_in, raw_responses, 1)
    /\ result' =
         [op |-> "run_agents",
          raw_responses |-> raw_responses,
          raised |-> {a \in Categories :
                         evaluate(a, step_in, raw_responses[a]).raised}]
    /\ UNCHANGED <<step_in, sessionVars, loop>>

NextAgents ==
    \E raw_responses \in [Categories -> RawResponses] : RunAgents(raw_responses)

SpecAgents == InitAgents /\ [][NextAgents]_vars

(***************************************************************************)
(* Claims.                                                                 *)
(***************************************************************************)
\* the step order and the thresholds as the specification states them
SuccessorOf(s) ==
    CASE s = "HISTORY"    -> "ASSESSMENT"
      [] s = "ASSESSMENT" -> "CLEANING"
      [] s = "CLEANING"   -> "DRESSING"
      [] OTHER            -> NoStep

StatedThreshold(s, engine_threshold) ==
    CASE s = "HISTORY"  -> 600
      [] s = "CLEANING" -> 700
      [] s = "DRESSING" -> 700
      [] OTHER          -> engine_threshold

\* an operation was called in this step, and it was process_step_result on
\* a session of the store
GatekeeperCalled(sid) ==
    /\ nops' = nops + 1
    /\ last'.op = "process_step_result"
    /\ last'.sid = sid
    /\ sid \in DOMAIN sessions

AttemptsOf(store, sid, s) == DictGet(store[sid].attempt_count, s, 0)

HasInappropriateClinical ==
    \E i \in 1..Len(evaluations) :
        /\ evaluations[i].agent = "clinical"
        /\ evaluations[i].verdict = "Inappropriate"

\* C1: at CLEANING and DRESSING, a record list that holds a clinical record
\* with verdict Inappropriate is never reported ready, by either readiness
\* engine, whatever the composite score is.
C1_SafetyVeto ==
    (step_in \in {"CLEANING", "DRESSING"} /\ HasInappropriateClinical) =>
        /\ result.op # "none" => ~result.ready_for_next_step
        /\ \A c \in CompositeValues :
              ~check_readiness(evaluations, step_in, c).ready_for_next_step

\* C2: a step request (process_step_result or session_step) changes the
\* session's current_step only when its evaluation is ready and carries no
\* blocking issue.
C2_ProgressionGating ==
    [][\A sid \in (DOMAIN sessions) \cap (DOMAIN sessions') :
          (/\ nops' = nops + 1
           /\ last'.op \in {"process_step_result", "session_step"}
           /\ last'.sid = sid
           /\ sessions'[sid].current_step # sessions[sid].current_step)
             => (last'.ready /\ ~last'.blocked)]_vars

C4_Advance ==
    [][\A sid \in DOMAIN sessions :
          (/\ GatekeeperCalled(sid)
           /\ ~sessions[sid].locked_step
           /\ sessions[sid].current_step # "DRESSING"
           /\ last'.ready /\ ~last'.blocked)
             => LET new == SuccessorOf(sessions[sid].current_step)
                IN  /\ last'.status = "ADVANCED"
                    /\ sessions'[sid].current_step = new
                    /\ new \in DOMAIN sessions'[sid].attempt_count
                    /\ sessions'[sid].attempt_count[new] = 0
                    /\ ~sessions'[sid].locked_step]_vars

C4_Witness ==
    /\ last.op = "process_step_result"
    /\ last.status = "ADVANCED"
    /\ last.current_step = "CLEANING"
    /\ last.sid \in DOMAIN sessions
    /\ sessions[last.sid].current_step = "CLEANING"
    /\ sessions[last.sid].attempt_count["CLEANING"] = 0
    /\ ~sessions[last.sid].locked_step

\* C5: process_step_result with a result that is not ready and has no
\* blocking issues returns RETRY, raises the current step's attempt count by
\* exactly 1, reports the new count as attempt_number, and leaves
\* current_step, the lock flag and the other steps' counts unchanged.
C5_Retry ==
    [][\A sid \in DOMAIN sessions :
          (/\ GatekeeperCalled(sid)
           /\ ~last'.ready /\ ~last'.blocked)
             => LET cur == sessions[sid].current_step
                IN  /\ last'.status = "RETRY"
                    /\ AttemptsOf(sessions', sid, cur) = AttemptsOf(sessions, sid, cur) + 1
                    /\ last'.attempt_number = AttemptsOf(sessions', sid, cur)
                    /\ sessions'[sid].current_step = cur
                    /\ sessions'[sid].locked_step = sessions[sid].locked_step
                    /\ \A s \in Steps \ {cur} :
                          /\ AttemptsOf(sessions', sid, s) = AttemptsOf(sessions, sid, s)
                          /\ s \in DOMAIN sessions'[sid].attempt_count
                               <=> s \in DOMAIN sessions[sid].attempt_count]_vars

C5_Witness ==
    /\ last.op = "process_step_result"
    /\ last.status = "RETRY"
    /\ last.attempt_number = 2
    /\ last.sid \in DOMAIN sessions
    /\ sessions[last.sid].current_step = "ASSESSMENT"
    /\ sessions[last.sid].attempt_count["ASSESSMENT"] = 2

\* C6: process_step_result with a result that has blocking issues returns
\* LOCKED, sets the lock flag, and leaves current_step and every attempt
\* count unchanged, whether the result is ready or not.
C6_Lock ==
    [][\A sid \in DOMAIN sessions :
          (GatekeeperCalled(sid) /\ last'.blocked)
             => /\ last'.status = "LOCKED"
                /\ sessions'[sid].locked_step
                /\ sessions'[sid].current_step = sessions[sid].current_step
                /\ last'.current_step = sessions[sid].current_step
                /\ sessions'[sid].attempt_count = sessions[sid].attempt_count]_vars

C6_Witness ==
    /\ last.op = "process_step_result"
    /\ last.status = "LOCKED"
    /\ last.ready /\ last.blocked
    /\ last.sid \in DOMAIN sessions
    /\ sessions[last.sid].locked_step
    /\ sessions[last.sid].current_step = "ASSESSMENT"
    /\ sessions[last.sid].attempt_count = [s \in {"HISTORY"} |-> 1]

\* C7: while a session's lock flag is true no operation changes its
\* current_step.
C7_LockedStepFrozen ==
    [][\A sid \in (DOMAIN sessions) \cap (DOMAIN sessions') :
          sessions[sid].locked_step
             => sessions'[sid].current_step = sessions[sid].current_step]_vars

\* C8: process_step_result never sets a true lock flag back to false,
\* whatever result it is given.
C8_LockNotCleared ==
    [][\A sid \in DOMAIN sessions :
          (GatekeeperCalled(sid) /\ sessions[sid].locked_step)
             => sessions'[sid].locked_step]_vars

C8_Witness ==
    /\ last.op = "process_step_result"
    /\ last.status = "ADVANCED"
    /\ last.ready /\ ~last.blocked
    /\ last.sid \in DOMAIN sessions
    /\ sessions[last.sid].locked_step

\* C9: process_step_result on a locked session does not return RETRY and
\* does not change the attempt counts.
C9_NoRetryWhileLocked ==
    [][\A sid \in DOMAIN sessions :
          (GatekeeperCalled(sid) /\ sessions[sid].locked_step)
             => /\ last'.status # "RETRY"
                /\ AttemptsOf(sessions', sid, sessions[sid].current_step)
                     = AttemptsOf(sessions, sid, sessions[sid].current_step)]_vars

StatedBase(verdict) ==
    CASE verdict = "Appropriate"           -> 10
      [] verdict = "Partially Appropriate" -> 6
      [] OTHER                             -> 0

DistinctCategories(evals) ==
    \A i, j \in 1..Len(evals) : i # j => evals[i].agent # evals[j].agent

StatedTotalWeight(evals, weight) ==
    SumOver([i \in 1..Len(evals) |-> weight[evals[i].agent]], 1..Len(evals))

StatedComposite(evals, weight) ==
    Quot(SumOver([i \in 1..Len(evals) |->
                     StatedBase(evals[i].verdict) * evals[i].confidence
                        * weight[evals[i].agent]],
                 1..Len(evals)),
         10 * StatedTotalWeight(evals, weight))

\* the weight tables of the two engines, by category
CoordinatorWeight == STEP_WEIGHTS[step_in]

ScoringWeight ==
    [a \in Categories |->
        SCORING_STEP_WEIGHTS[step_in][agent_name([agent |-> a])]]

\* C11: for a list of records of distinct categories with positive total
\* weight, the composite score of each engine is the sum of
\* base(verdict) * confidence * weight over the records divided by the sum of
\* the weights of the records (so a list whose records all score s has
\* composite s).
C11_WeightedComposite ==
    (evaluations # <<>> /\ DistinctCategories(evaluations)) =>
        /\ (result.op = "coordinate"
              /\ StatedTotalWeight(evaluations, CoordinatorWeight) > 0)
             => Round3(result.composite)
                  = Round3(StatedComposite(evaluations, CoordinatorWeight))
        /\ (result.op = "check_readiness"
              /\ StatedTotalWeight(evaluations, ScoringWeight) > 0)
             => Round3(result.composite)
                  = Round3(StatedComposite(evaluations, ScoringWeight))

\* a step request was evaluated end to end in this step, for a session of
\* the store
EvaluatedCalled(sid) ==
    /\ GatekeeperCalled(sid)
    /\ result'.op = "aggregate_evaluations"

\* the stated composite of a record list at a step is at or above the step's
\* threshold
StatedAtThreshold(evals, step) ==
    /\ evals # <<>>
    /\ DistinctCategories(evals)
    /\ StatedTotalWeight(evals, STEP_WEIGHTS[step]) > 0
    /\ Round3(StatedComposite(evals, STEP_WEIGHTS[step]))
          >= StatedThreshold(step, READINESS_THRESHOLDS[step])

\* neither engine finds a blocking issue in the list
NoBlockingIssue(evals, step) ==
    /\ ~check_critical_issues(agent_evals(evals), step)
    /\ BlockingIssues(evals, step) = <<>>

\* C12: a step request evaluated end to end on an unlocked session at
\* HISTORY, ASSESSMENT or CLEANING, whose records give a composite at or
\* above the threshold and no blocking issue, returns ADVANCED, moves
\* current_step to the successor and sets that step's attempt count to 0.
C12_EndToEndAdvance ==
    [][\A sid \in DOMAIN sessions :
          (/\ EvaluatedCalled(sid)
           /\ ~sessions[sid].locked_step
           /\ sessions[sid].current_step # "DRESSING"
           /\ StatedAtThreshold(evaluations', sessions[sid].current_step)
           /\ NoBlockingIssue(evaluations', sessions[sid].current_step))
             => LET new == SuccessorOf(sessions[sid].current_step)
                IN  /\ last'.status = "ADVANCED"
                    /\ last'.current_step = new
                    /\ sessions'[sid].current_step = new
                    /\ AttemptsOf(sessions', sid, new) = 0]_vars

\* the list holds a clinical record with verdict Inappropriate and an issue
\* text that contains a safety keyword
HasUnsafeClinical(evals) ==
    \E i \in 1..Len(evals) :
        /\ evals[i].agent = "clinical"
        /\ evals[i].verdict = "Inappropriate"
        /\ \E k \in 1..Len(evals[i].issues_detected) :
              Contains(lower(evals[i].issues_detected[k]),
                       <<"u", "n", "s", "a", "f", "e">>)

\* C13: a step request evaluated end to end for a session at CLEANING, whose
\* records hold an Inappropriate clinical record with an unsafe-technique
\* issue, carries a non-empty blocking_issues and returns LOCKED; afterwards
\* the lock flag is true and current_step is still CLEANING.
C13_EndToEndLock ==
    [][\A sid \in DOMAIN sessions :
          (/\ EvaluatedCalled(sid)
           /\ sessions[sid].current_step = "CLEANING"
           /\ HasUnsafeClinical(evaluations'))
             => /\ result'.blocking_issues # <<>>
                /\ last'.status = "LOCKED"
                /\ sessions'[sid].locked_step
                /\ sessions'[sid].current_step = "CLEANING"]_vars

\* C16: at every step the aggregation of an empty record list is not ready,
\* has composite 0.0, no per-agent contribution and the note "No evaluations
\* provided"; a step request evaluated end to end with an empty list returns
\* RETRY and raises the current step's attempt count by exactly 1.
C16_EmptyInput ==
    [][/\ \A s \in Steps :
             LET evaluation == aggregate_evaluations(<<>>, s)
             IN  /\ ~evaluation.readiness.ready_for_next_step
                 /\ evaluation.readiness.blocking_issues = <<>>
                 /\ evaluation.composite = 0
                 /\ evaluation.agent_details = {}
                 /\ evaluation.overall_summary = "No evaluations provided"
       /\ \A sid \in DOMAIN sessions :
             (EvaluatedCalled(sid) /\ evaluations' = <<>>)
                => LET cur == sessions[sid].current_step
                   IN  /\ ~result'.ready_for_next_step
                       /\ result'.composite = Quot(0, 1)
                       /\ last'.status = "RETRY"
                       /\ sessions'[sid].current_step = cur
                       /\ AttemptsOf(sessions', sid, cur)
                            = AttemptsOf(sessions, sid, cur) + 1]_vars

C16_Witness ==
    /\ last.op = "process_step_result"
    /\ last.status = "RETRY"
    /\ last.attempt_number = 2
    /\ result.op = "aggregate_evaluations"
    /\ evaluations = <<>>
    /\ step_in = "ASSESSMENT"
    /\ last.sid \in DOMAIN sessions
    /\ sessions[last.sid].attempt_count = [s \in {"ASSESSMENT"} |-> 2]

\* C14: process_step_result on a session at DRESSING with a ready result
\* without blocking issues returns a decision of its own, neither ADVANCED
\* nor RETRY nor LOCKED, names no missing step as the new current_step, and
\* leaves current_step at DRESSING.
C14_TerminalStep ==
    [][\A sid \in DOMAIN sessions :
          (/\ GatekeeperCalled(sid)
           /\ sessions[sid].current_step = "DRESSING"
           /\ last'.ready /\ ~last'.blocked)
             => /\ last'.status \notin {"ADVANCED", "RETRY", "LOCKED"}
                /\ sessions'[sid].current_step = "DRESSING"]_vars

\* the SessionManager mutators and the two step request operations
MutatorOps ==
    {"increment_attempt", "reset_attempts", "lock_current_step",
     "store_last_evaluation", "advance_step"}

StepRequestOps == {"process_step_result", "session_step"}

\* C15: a step request or a mutator called with a session id that is not in
\* the store leaves the store unchanged, and the step request returns a
\* not-found decision (NOT_FOUND, or the handler's HTTP 404) and no
\* unstructured failure.
C15_SessionNotFound ==
    [][(/\ nops' = nops + 1
        /\ last'.op \in MutatorOps \cup StepRequestOps
        /\ last'.sid \notin DOMAIN sessions)
          => /\ sessions' = sessions
             /\ last'.op \in StepRequestOps
                   => last'.status \in {"NOT_FOUND", "404"}]_vars

\* C17: every ADVANCED decision of process_step_result reports as
\* previous_step the session's step before the call and as current_step the
\* successor of that step, which is a step and is the stored current_step
\* after the call; the two reported steps differ.
C17_AdvancedReport ==
    [][\A sid \in DOMAIN sessions :
          (GatekeeperCalled(sid) /\ last'.status = "ADVANCED")
             => /\ last'.previous_step = sessions[sid].current_step
                /\ last'.current_step = SuccessorOf(sessions[sid].current_step)
                /\ last'.current_step \in Steps
                /\ last'.current_step = sessions'[sid].current_step
                /\ last'.previous_step # last'.current_step]_vars

\* the progression fields of a session
ProgressionFields(session) ==
    <<session.current_step, session.attempt_count, session.locked_step>>

\* the progression controller: process_step_result and the SessionManager
\* methods it writes through
ControllerOps ==
    {"process_step_result", "advance_step", "increment_attempt",
     "reset_attempts", "lock_current_step"}

\* C18: an operation on a session of the store that is not the progression
\* controller (the session_step handler with its add_log and add_rag_result
\* calls and its aggregation, store_last_evaluation) leaves the session's
\* current_step, attempt_count and lock flag unchanged.
C18_SoleWriter ==
    [][\A sid \in (DOMAIN sessions) \cap (DOMAIN sessions') :
          (/\ nops' = nops + 1
           /\ last'.op \in {"session_step", "store_last_evaluation"}
           /\ last'.sid = sid)
             => ProgressionFields(sessions'[sid]) = ProgressionFields(sessions[sid])]_vars

\* the orders in which n calls can run one after the other
Orders(n) ==
    {p \in [1..n -> 1..n] : \A i, j \in 1..n : i # j => p[i] # p[j]}

\* the store after the first k calls of an order ran one after the other
RECURSIVE RunInOrder(_, _, _)
RunInOrder(start, order, k) ==
    IF k = 0 THEN start
    ELSE process_step_result(RunInOrder(start, order, k - 1), ConcurrentSid,
                             loop.tasks[order[k]].coordinator_output).store

AllReturned == \A t \in DOMAIN loop.tasks : loop.tasks[t].pc = "done"

Returned(status) ==
    {t \in DOMAIN loop.tasks : loop.tasks[t].status = status}

\* C19: when all the process_step_result calls submitted together for one
\* session have returned, the store is the one that running them one after
\* the other in some order gives; if none advanced, the RETRY decisions
\* raised the step's attempt count by exactly their number, and a LOCKED
\* decision left the session locked.
C19_PerSessionAtomicity ==
    (loop.tasks # <<>> /\ AllReturned) =>
        /\ \E order \in Orders(Len(loop.tasks)) :
              sessions = RunInOrder(loop.start, order, Len(loop.tasks))
        /\ Returned("ADVANCED") = {} =>
              LET step == loop.start[ConcurrentSid].current_step
              IN  /\ AttemptsOf(sessions, ConcurrentSid, step)
                       = AttemptsOf(loop.start, ConcurrentSid, step)
                            + Cardinality(Returned("RETRY"))
                  /\ Returned("LOCKED") # {} => sessions[ConcurrentSid].locked_step

\* an advance and a retry submitted together: the retry ran second and its
\* increment of the new step's count is kept
C19_Witness ==
    /\ AllReturned
    /\ Returned("ADVANCED") # {}
    /\ Returned("RETRY") # {}
    /\ loop.start[ConcurrentSid].current_step = "HISTORY"
    /\ sessions[ConcurrentSid].current_step = "ASSESSMENT"
    /\ sessions[ConcurrentSid].attempt_count = [s \in {"ASSESSMENT"} |-> 1]

\* C20: a create_session call, and an operation called for one session,
\* leave the stored record of every other session of the store unchanged.
C20_SessionIndependence ==
    [][\A sid \in DOMAIN sessions :
          (/\ nops' = nops + 1
           /\ last'.op = "create_session" \/ last'.sid # sid)
             => /\ sid \in DOMAIN sessions'
                /\ sessions'[sid] = sessions[sid]]_vars

\* C21: create_session returns an id that is not in the store at the time
\* of the call, so it never replaces an existing session.
C21_UniqueSessionId ==
    [][(nops' = nops + 1 /\ last'.op = "create_session")
          => /\ last'.sid \notin DOMAIN sessions
             /\ \A sid \in DOMAIN sessions :
                   sid \in DOMAIN sessions' /\ sessions'[sid] = sessions[sid]]_vars

\* request t made its step transition in this step
Transitioned(t) ==
    /\ loop.tasks[t].pc = "logged"
    /\ loop'.tasks[t].pc = "done"
    /\ loop'.tasks[t].status = "200"

\* request t ended in this step without a decision: its aggregation raised
\* or it was abandoned while it waited
Abandoned(t) ==
    /\ loop.tasks[t].pc # "done"
    /\ loop'.tasks[t].pc = "done"
    /\ loop'.tasks[t].status \in {"500", "cancelled"}

\* C22: a step of a step request other than its step transition, and so a
\* request whose aggregation fails or that is abandoned while it waits,
\* leaves the session's current_step, attempt_count and lock flag unchanged.
C22_CommitAfterEvaluation ==
    [][/\ (\A t \in DOMAIN loop.tasks : ~Transitioned(t))
            => ProgressionFields(sessions'[ConcurrentSid])
                 = ProgressionFields(sessions[ConcurrentSid])
       /\ \A t \in DOMAIN loop.tasks :
             Abandoned(t) => sessions' = sessions]_vars

\* one request failed in aggregation and one was abandoned, after a third
\* had moved the session on
C22_Witness ==
    /\ \E t \in DOMAIN loop.tasks : loop.tasks[t].status = "500"
    /\ \E t \in DOMAIN loop.tasks : loop.tasks[t].status = "cancelled"
    /\ \E t \in DOMAIN loop.tasks : loop.tasks[t].status = "200"
    /\ loop.start[ConcurrentSid].current_step = "HISTORY"
    /\ sessions[ConcurrentSid].current_step = "ASSESSMENT"

\* C30: under every interleaving of the step requests for one session,
\* current_step never moves to an earlier step, and every step transition
\* of a request moves it to the successor of the step stored at that time.
C30_ForwardOnly ==
    [][LET old == sessions[ConcurrentSid].current_step
           new == sessions'[ConcurrentSid].current_step
       IN  /\ StepIndex(new) >= StepIndex(old)
           /\ \A t \in DOMAIN loop.tasks :
                 (Transitioned(t) /\ old # "DRESSING") => new = SuccessorOf(old)]_vars

\* C23: for records whose scores lie in [0,1] the composite score of each
\* engine lies in [0,1], at every step and for every list of records.
C23_CompositeInRange ==
    (/\ result.op \in {"coordinate", "check_readiness"}
     /\ \A i \in 1..Len(evaluations) :
           evaluations[i].confidence \in 0..1000)
       => /\ result.composite.num >= 0
          /\ result.composite.num <= 1000 * result.composite.den

\* the list with the confidence of record i raised to c
Raised(evals, i, c) == [evals EXCEPT ![i].confidence = c]

QuotLeq(p, q) == p.num * q.den <= q.num * p.den

\* C24: raising the confidence of one record, its verdict and the other
\* records unchanged, never lowers the composite score of either engine.
C24_Monotonicity ==
    \A i \in 1..Len(evaluations) :
        \A c \in {x \in ConfidenceValues : x >= evaluations[i].confidence} :
            LET raised == Raised(evaluations, i, c)
            IN  /\ result.op = "coordinate" =>
                      QuotLeq(result.composite,
                              calculate_weighted_confidence(agent_evals(raised),
                                                            STEP_WEIGHTS[step_in]))
                /\ result.op = "check_readiness" =>
                      result.composite.num
                         <= aggregate_scores(raised, step_in).composite_score

\* a raise that lifts the composite: the first of two records goes from
\* confidence 0.6 to 1.0
C24_Witness ==
    /\ result.op = "check_readiness"
    /\ Len(evaluations) = 2
    /\ evaluations[1].confidence = 600
    /\ evaluations[1].verdict = "Partially Appropriate"
    /\ aggregate_scores(Raised(evaluations, 1, 1000), step_in).composite_score
          > result.composite.num

\* base(verdict) * confidence as a per-mille quotient
StatedScore(ev) == Quot(StatedBase(ev.verdict) * ev.confidence, 10)

QuotEq(p, q) == p.num * q.den = q.num * p.den

\* the last record of the list that carries the agent name a
LastOf(evals, a) ==
    evals[CHOOSE i \in 1..Len(evals) :
             /\ agent_name(evals[i]) = a
             /\ \A j \in (i + 1)..Len(evals) : agent_name(evals[j]) # a]

\* C25: the score of a record is base(verdict) * confidence, with base 1.0,
\* 0.6 and 0.0 and score 0.0 for any other verdict; the per-agent score that
\* aggregate_scores reports is this value, and it is the value the
\* coordinator's composite uses for a category (the composite of a single
\* record of positive weight is that record's score).
C25_ScoreCalculator ==
    /\ \A i \in 1..Len(evaluations) :
          /\ QuotEq(Quot(score_single_evaluation(evaluations[i]), 10),
                    StatedScore(evaluations[i]))
          /\ score_single_evaluation(
                [evaluations[i] EXCEPT !.verdict = "Excellent"]) = 0
    /\ \A a \in DOMAIN aggregate_scores(evaluations, step_in).agent_scores :
          QuotEq(aggregate_scores(evaluations, step_in).agent_scores[a],
                 StatedScore(LastOf(evaluations, a)))
    /\ (/\ result.op = "coordinate"
        /\ Len(evaluations) = 1
        /\ StatedTotalWeight(evaluations, CoordinatorWeight) > 0)
          => QuotEq(result.composite, StatedScore(evaluations[1]))

\* C26: for a step name outside the four steps the aggregation uses the
\* HISTORY profile: the composite score and the readiness verdict of each
\* engine equal those computed for HISTORY with the same records.
C26_UnknownStepFallback ==
    step_in \notin Steps =>
        /\ result.op = "coordinate" =>
              LET h == coordinate(evaluations, "HISTORY")
              IN  /\ result.composite = Quot(h.aggregated_confidence, 1)
                  /\ result.ready_for_next_step = h.readiness_for_next_step
        /\ result.op = "check_readiness" =>
              LET scores == aggregate_scores(evaluations, "HISTORY")
                  h == check_readiness(evaluations, "HISTORY", scores.composite_score)
              IN  /\ result.composite = Quot(scores.composite_score, 1)
                  /\ result.ready_for_next_step = h.ready_for_next_step

\* the records with 0.0 written where the confidence is missing
MissingAsZero(evals) ==
    [i \in 1..Len(evals) |->
        [x \in (DOMAIN evals[i]) \cup {"confidence"} |->
            IF x = "confidence" THEN DictGet(evals[i], "confidence", 0)
            ELSE evals[i][x]]]

InUnitRange(q) == q.num >= 0 /\ q.num <= 1000 * q.den

\* C28: confidence is clamped to [0,1] before use: whatever the confidences
\* of the records are (missing, below 0, above 1, blended with the MCQ
\* score), the composite of the coordinator and every agent score lie in
\* [0,1], and a record without a confidence counts as one of confidence 0.0.
C28_ConfidenceClamped ==
    /\ result.op = "coordinate" =>
          /\ InUnitRange(result.composite)
          /\ result.composite =
                Quot(coordinate(MissingAsZero(evaluations), step_in).aggregated_confidence, 1)
    /\ result.op = "aggregate_evaluations" =>
          InUnitRange(Quot(result.response.internal.aggregated_confidence, 1))
    /\ result.op = "check_readiness" =>
          \A a \in DOMAIN result.response.agent_scores :
              InUnitRange(result.response.agent_scores[a])

StatedNewSession(session) ==
    /\ session.current_step = "HISTORY"
    /\ \A step \in Steps : DictGet(session.attempt_count, step, 0) = 0
    /\ session.locked_step = FALSE
    /\ session.last_evaluation = <<>>

\* the step is the call op(sid)
IsCall(op, sid) == nops' = nops + 1 /\ last'.op = op /\ last'.sid = sid

\* C27: the session create_session returns is at HISTORY with attempt count
\* 0 for every step, unlocked and without a last evaluation; and a session
\* in the store stays in it through every operation but delete_session on
\* its id: its id is not dropped, and no new session is put in its place.
C27_Lifecycle ==
    [][/\ (nops' = nops + 1 /\ last'.op = "create_session")
            => /\ last'.sid \in DOMAIN sessions'
               /\ StatedNewSession(sessions'[last'.sid])
       /\ \A sid \in DOMAIN sessions :
            \/ IsCall("delete_session", sid)
            \/ /\ sid \in DOMAIN sessions'
               /\ ~IsCall("create_session", sid)]_vars

\* the list with every record dropped that a later record of the same
\* category follows
RECURSIVE WithoutEarlierDuplicates(_)
WithoutEarlierDuplicates(evals) ==
    IF evals = <<>> THEN <<>>
    ELSE (IF \E j \in 2..Len(evals) : evals[j].agent = Head(evals).agent
          THEN <<>> ELSE <<Head(evals)>>)
           \o WithoutEarlierDuplicates(Tail(evals))

\* C31: with two records of one category the later one wins: the per-agent
\* scores, the composite score and the readiness of each engine equal those
\* computed from the list without the earlier duplicate.
C31_LaterDuplicateWins ==
    LET kept == WithoutEarlierDuplicates(evaluations)
    IN  /\ result.op = "coordinate" =>
              /\ result.composite =
                    calculate_weighted_confidence(agent_evals(kept), STEP_WEIGHTS[step_in])
              /\ result.ready_for_next_step =
                    coordinate(kept, step_in).readiness_for_next_step
              /\ coordinate(evaluations, step_in) = coordinate(kept, step_in)
        /\ result.op = "check_readiness" =>
              LET scores == aggregate_scores(kept, step_in)
                  r == check_readiness(kept, step_in, scores.composite_score)
              IN  /\ aggregate_scores(evaluations, step_in).agent_scores
                        = scores.agent_scores
                  /\ result.composite = Quot(scores.composite_score, 1)
                  /\ result.ready_for_next_step = r.ready_for_next_step
                  /\ result.blocking_issues = r.blocking_issues

\* an issue text of the record contains a safety keyword, in any letter case
HasSafetyKeyword(ev) ==
    \E i \in 1..Len(ev.issues_detected) :
        \E keyword \in critical_keywords :
            Contains(lower(ev.issues_detected[i]), keyword)

\* C32: at every step, when a record of any category has verdict
\* Inappropriate and an issue text with a safety keyword, each engine reports
\* a blocking issue and not ready, whatever the composite score is.
C32_SafetyKeywords ==
    (/\ result.op \in {"coordinate", "check_readiness"}
     /\ \E i \in 1..Len(evaluations) :
           /\ evaluations[i].verdict = "Inappropriate"
           /\ HasSafetyKeyword(evaluations[i]))
        => /\ result.blocking_issues # <<>>
           /\ ~result.ready_for_next_step
           /\ \A c \in CompositeValues :
                 LET r == check_readiness(evaluations, step_in, c)
                 IN  r.blocking_issues # <<>> /\ ~r.ready_for_next_step

\* the record of the step's dominant category, when the list has one
HasDominantRecord ==
    dominant_agent(STEP_WEIGHTS[step_in]) \in DOMAIN agent_evals(evaluations)

DominantRecord ==
    agent_evals(evaluations)[dominant_agent(STEP_WEIGHTS[step_in])]

\* C33: at every step, when the record of the dominant category has verdict
\* Inappropriate and more than 2 detected issues, each engine reports a
\* blocking issue and not ready, whatever the composite score is; with
\* exactly 2 issues and no safety keyword the issue count does not block.
C33_IssueCount ==
    /\ (/\ result.op \in {"coordinate", "check_readiness"}
        /\ HasDominantRecord
        /\ DominantRecord.verdict = "Inappropriate"
        /\ Len(DominantRecord.issues_detected) > 2)
          => /\ result.blocking_issues # <<>>
             /\ ~result.ready_for_next_step
             /\ \A c \in CompositeValues :
                   LET r == check_readiness(evaluations, step_in, c)
                   IN  r.blocking_issues # <<>> /\ ~r.ready_for_next_step
    /\ (/\ result.op = "coordinate"
        /\ HasDominantRecord
        /\ Len(DominantRecord.issues_detected) = 2
        /\ ~HasSafetyKeyword(DominantRecord))
          => result.blocking_issues = <<>>

\* the category labels as the merged lists show them
StatedLabel ==
    [communication |-> <<"[", "C", "o", "m", "m", "u", "n", "i", "c", "a", "t", "i", "o", "n", "]", " ">>,
     knowledge     |-> <<"[", "K", "n", "o", "w", "l", "e", "d", "g", "e", "]", " ">>,
     clinical      |-> <<"[", "C", "l", "i", "n", "i", "c", "a", "l", "]", " ">>]

\* the categories with a record, and the record that counts for each
PresentCategories == {evaluations[i].agent : i \in 1..Len(evaluations)}

LatestOf(a) ==
    evaluations[CHOOSE i \in 1..Len(evaluations) :
                    /\ evaluations[i].agent = a
                    /\ \A j \in (i + 1)..Len(evaluations) : evaluations[j].agent # a]

\* the present categories whose weight for the step is above 0.1
ListedCategories == {a \in PresentCategories : CoordinatorWeight[a] > 1}

\* the orders of the listed categories in which the weight never rises
DescendingOrders ==
    {o \in [1..Cardinality(ListedCategories) -> ListedCategories] :
        /\ \A i, j \in DOMAIN o : i # j => o[i] # o[j]
        /\ \A i, j \in DOMAIN o : i < j => CoordinatorWeight[o[i]] >= CoordinatorWeight[o[j]]}

\* the entries of `field`, category by category in order o, each with the
\* label of its category in front and in the order its record has them
RECURSIVE StatedMerged(_, _)
StatedMerged(o, field) ==
    IF o = <<>> THEN <<>>
    ELSE [i \in 1..Len(LatestOf(Head(o))[field]) |->
             StatedLabel[Head(o)] \o LatestOf(Head(o))[field][i]]
           \o StatedMerged(Tail(o), field)

\* C34: each merged list of step_feedback holds the entries of the categories
\* whose weight for the step is above 0.1, grouped by category in descending
\* order of weight, labelled, in their order within the category; a category
\* of weight <= 0.1 has no entry in the lists and still counts, with its
\* weight, in the composite.
C34_FeedbackAggregation ==
    (result.op = "coordinate" /\ evaluations # <<>>) =>
        /\ \E o \in DescendingOrders :
              \A field \in {"strengths", "issues_detected", "missed_points"} :
                  result.step_feedback[field] = StatedMerged(o, field)
        /\ QuotEq(result.composite,
                  Quot(SumOver([a \in PresentCategories |->
                                   LatestOf(a).confidence * CoordinatorWeight[a]],
                               PresentCategories),
                       SumOver([a \in PresentCategories |-> CoordinatorWeight[a]],
                               PresentCategories)))

\* HISTORY with a record of each category: communication's entries come
\* before knowledge's, clinical (weight 0.1) has entries and none is listed,
\* and the composite is not the one of the two listed categories alone
C34_Witness ==
    /\ result.op = "coordinate"
    /\ step_in = "HISTORY"
    /\ PresentCategories = Categories
    /\ Len(evaluations) = 3
    /\ \A a \in Categories : LatestOf(a).strengths # <<>>
    /\ Len(result.step_feedback.strengths)
          = Len(LatestOf("communication").strengths) + Len(LatestOf("knowledge").strengths)
    /\ result.step_feedback.strengths[1]
          = StatedLabel["communication"] \o LatestOf("communication").strengths[1]
    /\ LatestOf("clinical").confidence = 600
    /\ LatestOf("communication").confidence = 1000
    /\ LatestOf("knowledge").confidence = 1000
    /\ QuotLess(result.composite, 1000)

\* the attempt count of the session's current step
CurrentAttempts(store, sid) ==
    AttemptsOf(store, sid, store[sid].current_step)

\* the step is a call of one of the two entry points that drive a session,
\* or of an operation that is not the controller's means of counting
DrivingCall ==
    /\ nops' = nops + 1
    /\ last'.op \in {"process_step_result", "session_step",
                     "lock_current_step", "store_last_evaluation"}

\* C35: attempt_count[current_step] is the number of RETRY decisions since
\* the session entered its current step.  Step by step: a RETRY of
\* process_step_result adds 1 and keeps the step; a call that moves the
\* session to another step leaves the new step's count at 0; every other
\* call leaves step and count as they were.
C35_AttemptCount ==
    [][\A sid \in (DOMAIN sessions) \cap (DOMAIN sessions') :
          DrivingCall =>
            IF GatekeeperCalled(sid) /\ last'.status = "RETRY"
            THEN /\ sessions'[sid].current_step = sessions[sid].current_step
                 /\ CurrentAttempts(sessions', sid) = CurrentAttempts(sessions, sid) + 1
            ELSE IF sessions'[sid].current_step # sessions[sid].current_step
            THEN CurrentAttempts(sessions', sid) = 0
            ELSE CurrentAttempts(sessions', sid) = CurrentAttempts(sessions, sid)]_vars

\* a ready evaluation without blocking issues, and one that is not ready
ReadyOutput ==
    [readiness |-> [ready_for_next_step |-> TRUE, blocking_issues |-> <<>>]]

RetryOutput ==
    [readiness |-> [ready_for_next_step |-> FALSE, blocking_issues |-> <<>>]]

\* the store after n process_step_result calls with the same evaluation
RECURSIVE Applied(_, _, _, _)
Applied(store, sid, out, n) ==
    IF n = 0 THEN store
    ELSE Applied(process_step_result(store, sid, out).store, sid, out, n - 1)

\* C36: from every state of an unlocked session, three process_step_result
\* calls with ready evaluations without blocking issues bring the session to
\* DRESSING, each of them moving it one step until it is there; and this is
\* so after any number of RETRY calls, which leave the step where it is.
C36_Progress ==
    \A sid \in DOMAIN sessions :
        ~sessions[sid].locked_step =>
            \A k \in 0..(MaxAttempts + 1) :
                LET cur     == sessions[sid].current_step
                    retried == Applied(sessions, sid, RetryOutput, k)
                IN  /\ retried[sid].current_step = cur
                    /\ ~retried[sid].locked_step
                    /\ \A n \in 1..3 :
                          LET s == Applied(retried, sid, ReadyOutput, n)[sid]
                          IN  /\ ~s.locked_step
                              /\ s.current_step =
                                    StepOrder[IF StepIndex(cur) + n < Len(StepOrder)
                                              THEN StepIndex(cur) + n
                                              ELSE Len(StepOrder)]
                    /\ Applied(retried, sid, ReadyOutput, 3)[sid].current_step
                          = "DRESSING"

\* a session that was retried at HISTORY and then reached DRESSING
C36_Witness ==
    /\ last.op = "process_step_result"
    /\ last.status = "ADVANCED"
    /\ last.sid \in DOMAIN sessions
    /\ sessions[last.sid].current_step = "DRESSING"
    /\ ~sessions[last.sid].locked_step
    /\ AttemptsOf(sessions, last.sid, "HISTORY") > 0
    /\ nops = 4

\* the label each agent gives its records
StatedAgentName ==
    [communication |-> "CommunicationAgent",
     knowledge     |-> "KnowledgeAgent",
     clinical      |-> "ClinicalAgent"]

\* C37: running the three agents yields, without any of them raising,
\* exactly one record per category, labelled with the agent's own name and
\* the current step; an agent whose model call failed or whose output does
\* not parse returns verdict Inappropriate with confidence 0.0.
C37_OneRecordPerCategory ==
    result.op = "run_agents" =>
        /\ result.raised = {}
        /\ Len(evaluations) = Cardinality(Categories)
        /\ \A a \in Categories :
              \E i \in 1..Len(evaluations) :
                  /\ evaluations[i].agent_name = StatedAgentName[a]
                  /\ evaluations[i].step = step_in
                  /\ \A j \in 1..Len(evaluations) :
                        evaluations[j].agent_name = StatedAgentName[a] => j = i
                  /\ result.raw_responses[a] \in {CallFailed, Unparsable}
                        => /\ DictGet(evaluations[i], "verdict", "") = "Inappropriate"
                           /\ evaluations[i].confidence = 0

====
